---- MODULE Spec2Model ----
(***************************************************************************)
(* TwoWheelBotDQN: the 2-64-3 feed-forward policy network of the two-wheel *)
(* balancing robot (src/models/*.cpp).  The three generated files hold the *)
(* same class and differ only in the trained tensors.                      *)
(*                                                                         *)
(* A float is modelled as a fixed-point integer: the value x stands for    *)
(* x / ONE.  A product or a quotient is rounded to the nearest grid point, *)
(* as a float operation rounds to the nearest representable value.         *)
(*                                                                         *)
(* getAction is modelled statement by statement: frame[t] is the           *)
(* activation record of thread t's call (its arguments, its locals and its *)
(* position), so calls of several threads on one instance interleave at    *)
(* every statement.  getMotorTorque is one step.                           *)
(***************************************************************************)
EXTENDS Integers, Sequences, FiniteSets

\* ----------------------------------------------------------------------
\* Architecture constants (lines 14-16 of each file)
\* ----------------------------------------------------------------------
INPUT_SIZE == 2

HIDDEN_SIZE == 64

OUTPUT_SIZE == 3

\* ----------------------------------------------------------------------
\* Floating-point values on the fixed-point grid
\* ----------------------------------------------------------------------
\* the float 1.0 (the clamp bound of lines 95-96)
ONE == 1000

\* the divisor 10.0 of line 96
TEN == 10 * ONE

\* M_PI of <math.h>, 3.1416 on the grid
M_PI == (31416 * ONE) \div 10000

\* the divisor (M_PI / 3) of line 95
M_PI_3 == M_PI \div 3

\* n / d rounded to the nearest integer (d > 0), halves upwards
RoundDiv(n, d) == (2 * n + d) \div (2 * d)

\* the float product x * y
FMul(x, y) == RoundDiv(x * y, ONE)

\* the float quotient x / y (y > 0)
FDiv(x, y) == RoundDiv(x * ONE, y)

\* -1e10 does not fit one machine integer of the checker: a wide value
\* [k, v] stands for k * WIDE_UNIT + v grid units, 0 <= v < WIDE_UNIT.
WIDE_UNIT == 100000 * ONE

Wide(x) == [k |-> x \div WIDE_UNIT, v |-> x % WIDE_UNIT]

\* a > b on wide values
WideGreater(a, b) == a.k > b.k \/ (a.k = b.k /\ a.v > b.v)

\* a running maximum that starts at 0
MaxValueInitZero == [k |-> 0, v |-> 0]

\* the initial running maximum -1e10 of line 110: -1e10 * ONE grid units
MAX_VALUE_INIT == [k |-> -100000, v |-> 0]

\* element k (zero-based, as in the C++ arrays) of a tensor
At(tensor, k) == tensor[k + 1]

\* ----------------------------------------------------------------------
\* The trained tensors of the three generated files (lines 19-78 of each),
\* times ONE and rounded to the grid
\* ----------------------------------------------------------------------
GoodWeightsInputHidden ==
    <<6296, -1851, -3661, 603, -6842, -2096, -2127, 7629, -1743, 9687, 4709, -2089,
       -2577, 9120, 503, -1870, -2594, 7311, -4326, -3920, 9729, -2217, 5342, 8861,
       -6689, 4233, 9996, 4026, 8001, -5579, 4700, 2422, -1920, -3820, -3596, 5017,
       4649, 8203, -6309, 4132, 9414, -2305, 8492, 9953, -2091, 2352, 629, -9663,
       -7130, -4491, -8846, 9965, -7087, -2284, -6910, 936, -9991, 9979, 7905, 4998,
       9104, 7881, 5247, 9994, 6976, 6465, -5529, -1290, 7187, 6891, 7693, 9330,
       6430, 9168, 7105, 7607, 3539, 8853, 2879, 7341, 7453, 4370, -5238, -5413,
       2631, 6005, 7786, 3689, -9905, 7137, 6699, 7038, 6476, -144, 6829, 9501,
       7364, 9450, -5505, 6986, 6728, 8457, -3788, 8261, 9560, 7476, 3418, 1169,
       6794, 80, -8089, -9847, 3054, 4116, 6925, 9965, -3540, 7449, -9999, 6613,
       -9733, 10000, 8764, 7846, 10000, -2677, 7983, 9999>>

GoodBiasHidden ==
    <<81, -930, -6502, -180, 9275, -1476, -1153, -59, -994, -32, -30, -1144,
       -1419, 9996, -1008, -1195, -748, 9999, -7017, -6701, -240, -911, 60, 9998,
       -547, 450, 9308, -18, 4539, -5653, -88, 1632, -1185, 3199, -6424, 109,
       -87, 137, 2835, -1178, -67, -948, -1161, 9806, -871, 3015, -2235, -589,
       23, 3432, 4630, -208, 60, -951, -280, -3237, -97, 9865, 6809, 3648,
       5386, 1412, -39, 9996>>

GoodWeightsHiddenOutput ==
    <<-9760, -9704, -3455, -5565, -3109, -2520, 1461, -9709, -5648, -2213, -139, 5161,
       431, -1438, 400, -6374, -1190, 255, -7307, -1844, -1973, -6472, -9947, -2031,
       -5128, -4352, -3465, -5540, -1448, 8454, -9713, -9834, -7447, -8441, -1716, -2385,
       656, 1199, 1451, -651, -6365, 2985, -621, -3977, -6567, -8432, -2003, -1969,
       -6570, -2963, -1466, 598, 1696, 415, 1141, -10000, -5520, 1365, -10000, -5648,
       4466, 4912, -9998, -4885, -3639, 2213, -8080, -9548, -3168, -409, 6188, 1462,
       -9788, -4645, -10000, -9581, -9622, -8123, 20, 537, -1721, -9698, -9878, -8298,
       6285, 9437, 9999, 5954, 9845, -2366, -7274, -9901, -7681, 10000, -9047, -800,
       -6896, -2195, -3069, 10000, -6593, -998, 1531, -7872, -5430, -8578, -9720, -5071,
       -6414, -9901, -7672, 3819, 1021, 7637, 75, 1333, 2132, -6511, -8142, -2197,
       -7498, -8794, -1683, -8340, -2055, -1594, 7187, 7875, 5511, 152, 3063, -625,
       -5831, -2893, -2016, -22, -3163, 3536, -3899, 5829, -4217, -9236, -9891, -10000,
       -3540, -7601, -7294, 3328, 522, 788, 2389, -1356, 9334, 1932, -4671, -7351,
       -9182, -7006, -6903, -8422, -2289, -1657, -9779, 3332, -10000, -1588, -3720, -4567,
       10000, -2246, -5716, -1103, 1669, -783, -758, 2342, 133, 441, 584, -1093,
       561, 625, -1060, 8594, 5169, -7617, -1505, 2753, -1614, -437, 1792, -1058>>

GoodBiasOutput ==
    <<10000, 9864, 8508>>

OkayishWeightsInputHidden ==
    <<7023, -1946, -3661, 603, -5157, -2126, -2262, 3538, -1848, 5594, 5158, -2229,
       -2577, -4075, 3075, 1583, -2658, 6861, -4326, -3920, 1962, -2236, 8866, 8777,
       -6882, 7040, 6979, 3682, 8948, -5579, 5578, -397, 1448, 2259, -3596, 5706,
       3216, 9004, 2990, 5683, 5422, -2412, 8792, 4318, -2178, 8304, 657, -5844,
       -6587, -4977, 9009, 5065, 1330, -2394, -3755, 5433, -7779, 5952, 6252, 8590,
       1917, 3361, 4989, 8525, 7040, 6250, -5529, -1290, -2341, 6862, 7467, 9133,
       6196, -544, 1496, 7390, 3539, -2879, 5603, 9999, 7287, 7166, -5238, -5413,
       6281, 5986, 9999, 6671, -9273, 9999, 6412, 9999, 2363, -144, 9988, -1337,
       9999, -3803, -5505, 5310, 9999, 1244, 625, 9999, 5444, 7290, 6817, 4470,
       6592, 703, -7944, -8207, -9987, -3606, 987, 9999, -6503, 7262, -9583, 9457,
       -8294, 6828, 6330, 5177, 4481, 6679, 6804, 5973>>

OkayishBiasHidden ==
    <<-4609, -1026, -6502, -180, 10000, -1506, -1288, -64, -1098, -5407, -5627, -1284,
       -1419, 7610, -20, -267, -812, 8894, -7017, -6701, -299, -931, -756, 9999,
       -740, -783, 9060, -454, -2636, -5653, 432, -904, -257, -390, -6424, -5095,
       -413, -2549, 9998, -652, -6178, -1055, -1111, 7946, -958, 9961, -2263, -5,
       -576, 10000, -2523, -592, -43, -1061, -601, -395, 41, 9997, 8007, 8575,
       8618, -475, -3886, 9999>>

OkayishWeightsHiddenOutput ==
    <<-5588, -1338, 7894, -4963, -3183, -2710, 1461, -9709, -5648, -2213, -139, 5161,
       -84, 671, 2650, -6374, -1191, 247, -6728, -1919, -2161, -9998, -9104, -6751,
       -4544, -4427, -3655, -2032, -2058, 9277, -4726, -2928, 2246, -7852, -1791, -2572,
       656, 1199, 1451, 1544, -1286, 873, -4065, -5274, -7706, -9998, -3834, -5459,
       -5848, -3030, -1663, 1971, 252, -554, 1141, -10000, -5520, 1365, -10000, -5648,
       1014, 427, -8633, -4885, -3639, 2210, -9998, -9236, -818, 186, 6200, 1062,
       -9568, -7803, -9970, -9999, -8179, -2274, 1751, 318, -568, -9999, -9999, -8021,
       9990, 7112, 5203, 5954, 9845, -2366, -5185, -5302, 9999, 9743, -2213, 9828,
       -9712, -4027, -6542, 7397, 8965, 9584, 1531, -7872, -5430, -7620, -6062, 1330,
       -9998, -9999, -8597, 9979, 7311, 6553, -3782, 234, 1429, -7104, -9731, -2981,
       -6540, -878, 7423, -7699, -2127, -1783, 8524, 7227, -5621, 2146, 18, -266,
       -5200, -2965, -2204, 990, -1441, 3424, -3726, 5854, -4169, -5795, -7439, -5606,
       9577, -2340, -5103, -834, 1273, 2634, 9974, 8246, 5850, -5402, -6337, -4632,
       -7500, -7818, -8956, -7782, -2361, -1846, -9937, 4738, -8085, -3914, -5223, -6069,
       9084, 9501, 9353, 1529, 1265, -1154, 1588, 253, -293, 699, -1106, 858,
       2816, -329, -600, 7980, 2226, -10000, -753, 823, -6823, 721, 2457, -943>>

OkayishBiasOutput ==
    <<9510, 10000, 9999>>

GreatWeightsInputHidden ==
    <<1562, 514, -473, 2809, 4761, 2532, 1124, 1505, 1806, 1635, -2063, 1179,
       428, -563, 1535, -1068, -1058, -730, 1485, -998, 2256, 1230, 1556, 2357,
       239, 2696, -1085, -1703, 1799, -1284, 3650, 2727, 2213, 2016, 1633, 606,
       -630, 2148, -1120, 2848, -577, 1611, -200, 1669, -542, -594, -427, 3236,
       2886, -134, -2303, -131, 803, 810, 1634, -1151, -602, 1177, -145, 1298,
       -172, 1875, 1143, 645, 141, -1277, -1182, 2753, 1922, 1899, -168, 240,
       -677, 1195, 2633, 136, 819, 2169, -1625, 1515, -1046, -44, -1355, 1403,
       608, 252, 2683, 3270, -3574, 1947, -887, 1200, 64, 2478, 825, 2147,
       3447, 809, -1283, 1173, -587, 1235, 2051, 3610, 1502, 2385, -1699, 439,
       1101, 1389, -451, -714, 2530, 325, -155, -121, -1491, 2180, -3194, -1797,
       -405, 811, 1003, 1031, -1696, 2399, 1698, 669>>

GreatBiasHidden ==
    <<3335, -430, -829, 479, 65, 2978, 1537, 4089, 4164, 1870, 4015, 2219,
       2195, 2189, 4111, 321, -807, 3492, 5536, 4350, 2568, 4641, -505, -237,
       -644, -473, 1674, 3670, 3787, 3417, -2, 3082, 7, 2442, 1465, 3237,
       -916, 3160, 1606, 389, 4343, 3001, 33, -334, 1705, -654, -682, 3266,
       -137, 2909, 8, 3443, 269, -1494, 707, -213, -831, -1481, 1047, -1493,
       3651, 3451, 1528, 3036>>

GreatWeightsHiddenOutput ==
    <<466, 1496, 1884, 812, -174, 374, 1206, -846, 903, -760, -1937, -623,
       -1887, -1697, -1095, 289, 705, 103, 748, 64, 468, -134, 352, 1813,
       1215, 827, 1599, 466, 361, 320, 1831, 202, 1511, 33, 1775, -323,
       552, 1961, 599, 194, 1618, 402, 1508, 406, 1550, 601, 4383, 304,
       113, -846, -1045, 873, 787, 2072, 3022, 388, 741, 1778, 195, 1673,
       459, 441, -22, 1214, 4931, -1774, -501, -1981, -267, -364, -2896, -825,
       39, -1091, -273, -430, -1647, -646, 1775, 2445, 1760, 1570, -120, 1729,
       1200, 332, 1063, 1012, -405, 982, -1113, -1767, -1091, 436, 876, 34,
       -969, -1135, -741, 502, 158, 398, -93, 575, 1285, 371, 393, 1448,
       1018, -973, 1042, 613, 240, 416, 463, 257, 960, -1035, -1863, -870,
       1285, 346, 1616, 317, -158, -11, -260, -353, -1292, -122, -1896, -448,
       605, -139, 1106, 894, -759, 350, 673, -507, 84, 252, 1499, 1179,
       -816, -1872, -943, 720, 1531, 1106, -954, -607, -1675, -453, 1677, -108,
       333, -560, 570, 1, -557, 40, 1068, 328, 881, -79, -693, -1079,
       1187, -1230, 970, 182, -418, 93, 240, 3889, 363, -327, -1418, 61,
       1210, 1152, 1747, 354, -12, -99, 96, 1298, 428, 885, 919, 1120>>

GreatBiasOutput ==
    <<609, 4685, 431>>

\* ----------------------------------------------------------------------
\* Bounds of the model
\* ----------------------------------------------------------------------
\* synthetic output biases are 0..MaxBias half units each
MaxBias == 1

\* observed angles are the multiples -MaxAngleK..MaxAngleK of AngleStep
MaxAngleK == 3

\* a sixth of pi on the grid: two steps are just beyond M_PI_3
AngleStep == 524

\* observed velocities are the multiples -MaxVelK..MaxVelK of VelStep
MaxVelK == 3

\* 5.0 rad/s: two steps are exactly the bound 10.0
VelStep == 5000

\* ----------------------------------------------------------------------
\* Parameter sets: the three shipped ones and synthetic ones of the same
\* shape (equal scores, zero hidden biases)
\* ----------------------------------------------------------------------
HALF == ONE \div 2

SynthWeightsInputHidden(s) ==
    [k \in 1..(INPUT_SIZE * HIDDEN_SIZE) |-> ((((k - 1) * (s + 1)) % 5) - 2) * HALF]

\* seed 0: all hidden biases are 0
SynthBiasHidden(s) ==
    [k \in 1..HIDDEN_SIZE |-> IF s = 0 THEN 0 ELSE ((((k - 1) * (s + 2)) % 3) - 1) * HALF]

\* seed 0: the weight depends on the hidden unit only, so the three scores
\* differ by their biases alone
SynthWeightsHiddenOutput(s) ==
    [k \in 1..(HIDDEN_SIZE * OUTPUT_SIZE) |->
        (((((k - 1) \div OUTPUT_SIZE) * (s + 1) + ((k - 1) % OUTPUT_SIZE) * s) % 3) - 1) * HALF]

SynthBiasOutput(b0, b1, b2) == <<b0 * HALF, b1 * HALF, b2 * HALF>>

ShippedParams ==
    { [weightsInputHidden |-> GoodWeightsInputHidden, biasHidden |-> GoodBiasHidden,
       weightsHiddenOutput |-> GoodWeightsHiddenOutput, biasOutput |-> GoodBiasOutput],
      [weightsInputHidden |-> OkayishWeightsInputHidden, biasHidden |-> OkayishBiasHidden,
       weightsHiddenOutput |-> OkayishWeightsHiddenOutput, biasOutput |-> OkayishBiasOutput],
      [weightsInputHidden |-> GreatWeightsInputHidden, biasHidden |-> GreatBiasHidden,
       weightsHiddenOutput |-> GreatWeightsHiddenOutput, biasOutput |-> GreatBiasOutput] }

Synth(s, b0, b1, b2) ==
    [weightsInputHidden |-> SynthWeightsInputHidden(s), biasHidden |-> SynthBiasHidden(s),
     weightsHiddenOutput |-> SynthWeightsHiddenOutput(s), biasOutput |-> SynthBiasOutput(b0, b1, b2)]

\* seed 0 with every triple of output biases, seed 1 with the outer two equal
SynthParams ==
    {Synth(0, b0, b1, b2) : b0 \in 0..MaxBias, b1 \in 0..MaxBias, b2 \in 0..MaxBias}
    \cup {Synth(1, MaxBias, b1, MaxBias) : b1 \in 0..MaxBias}

ParamSets == ShippedParams \cup SynthParams

\* ----------------------------------------------------------------------
\* Observations and other inputs
\* ----------------------------------------------------------------------
Angles == {k * AngleStep : k \in (0 - MaxAngleK)..MaxAngleK} \cup {0 - M_PI_3, M_PI_3}

Velocities == {k * VelStep : k \in (0 - MaxVelK)..MaxVelK}

\* one coordinate varies over its whole range while the other is 0, plus the corners
Observations ==
    {<<a, 0>> : a \in Angles} \cup {<<0, v>> : v \in Velocities}
    \cup {<<a, v>> : a \in {0 - MaxAngleK * AngleStep, MaxAngleK * AngleStep},
                     v \in {0 - MaxVelK * VelStep, MaxVelK * VelStep}}

\* the action indexes a caller may pass to getMotorTorque, valid or not
ActionArgs == (0 - 1)..OUTPUT_SIZE

\* what an uninitialised local or an out-of-bounds read may hold
Indeterminate == {0, 2 * HIDDEN_SIZE * HALF}

Threads == {"t1", "t2"}

VARIABLES
    weightsInputHidden,   \* const float weightsInputHidden[INPUT_SIZE * HIDDEN_SIZE]
    biasHidden,           \* const float biasHidden[HIDDEN_SIZE]
    weightsHiddenOutput,  \* const float weightsHiddenOutput[HIDDEN_SIZE * OUTPUT_SIZE]
    biasOutput,           \* const float biasOutput[OUTPUT_SIZE]
    frame,                \* frame[t]: arguments, locals and position of thread t's getAction
    ret,                  \* ret[t]: what thread t's last call returned (none while its
                          \* getAction runs)
    earlier               \* earlier[t]: thread t's current or last getAction began after an
                          \* earlier call on the instance had returned (history)

params == <<weightsInputHidden, biasHidden, weightsHiddenOutput, biasOutput>>

vars == <<weightsInputHidden, biasHidden, weightsHiddenOutput, biasOutput, frame, ret, earlier>>

\* ----------------------------------------------------------------------
\* relu and constrain (lines 81-83, 140-144)
\* ----------------------------------------------------------------------
relu(x) == IF x > 0 THEN x ELSE 0

\* a constrain that forgets the upper bound
constrainNoMax(value, min, max) == IF value < min THEN min ELSE value

constrain(value, min, max) ==
    IF value < min THEN min
    ELSE IF value > max THEN max
    ELSE value

\* ----------------------------------------------------------------------
\* getAction (lines 92-127), one statement at a time
\* ----------------------------------------------------------------------
\* locals declared static: every call uses the same buffers
LocalStatic(t) == "t1"

\* input, hidden, output, maxValue and bestAction are automatic variables:
\* thread t's call uses the ones in its own frame
Local(t) == t

\* the frame on entry: the arguments are set, the locals are indeterminate (g);
\* macsHidden and macsOutput count the multiply-adds of lines 103 and 116 the
\* call has executed
EntryFrame(a, v, g) ==
    [pc |-> "L95", angle |-> a, angularVelocity |-> v,
     input |-> [k \in 0..(INPUT_SIZE - 1) |-> g],
     hidden |-> [k \in 0..(HIDDEN_SIZE - 1) |-> g],
     output |-> [k \in 0..(OUTPUT_SIZE - 1) |-> g],
     maxValue |-> Wide(g), bestAction |-> g, h |-> g, i |-> g, o |-> g,
     macsHidden |-> 0, macsOutput |-> 0]

NoFrame == [EntryFrame(0, 0, 0) EXCEPT !.pc = "idle"]

\* line 95: input[0] = constrain(angle / (M_PI / 3), -1.0, 1.0)
DoL95(fr, t) ==
    [fr EXCEPT ![Local(t)].input[0] = constrain(FDiv(fr[t].angle, M_PI_3), 0 - ONE, ONE),
               ![t].pc = "L96"]

\* line 96: input[1] = constrain(angularVelocity / 10.0, -1.0, 1.0); line 100: h = 0
DoL96(fr, t) ==
    [fr EXCEPT ![Local(t)].input[1] = constrain(FDiv(fr[t].angularVelocity, TEN), 0 - ONE, ONE),
               ![t].h = 0,
               ![t].pc = IF 0 < HIDDEN_SIZE THEN "L101" ELSE "L110"]

\* line 101 starting the sum at 0 instead of the bias
DoL101ZeroInit(fr, t) ==
    [fr EXCEPT ![Local(t)].hidden[fr[t].h] = 0,
               ![t].i = 0,
               ![t].pc = IF 0 < INPUT_SIZE THEN "L103" ELSE "L105"]

\* line 101: hidden[h] = biasHidden[h]; line 102: i = 0
DoL101(fr, t) ==
    [fr EXCEPT ![Local(t)].hidden[fr[t].h] = At(biasHidden, fr[t].h),
               ![t].i = 0,
               ![t].pc = IF 0 < INPUT_SIZE THEN "L103" ELSE "L105"]

\* line 103 reading the weight matrix column-major: weightsInputHidden[h * INPUT_SIZE + i]
DoL103Transposed(fr, t) ==
    LET h == fr[t].h
        i == fr[t].i
        b == fr[Local(t)]
    IN  [fr EXCEPT ![Local(t)].hidden[h] =
                       b.hidden[h] + FMul(b.input[i], At(weightsInputHidden, h * INPUT_SIZE + i)),
                   ![t].i = i + 1,
                   ![t].macsHidden = @ + 1,
                   ![t].pc = IF i + 1 < INPUT_SIZE THEN "L103" ELSE "L105"]

\* line 103 leaving the inner loop after its first pass
DoL103OneInput(fr, t) ==
    LET h == fr[t].h
        i == fr[t].i
        b == fr[Local(t)]
    IN  [fr EXCEPT ![Local(t)].hidden[h] =
                       b.hidden[h] + FMul(b.input[i], At(weightsInputHidden, i * HIDDEN_SIZE + h)),
                   ![t].i = i + 1,
                   ![t].macsHidden = @ + 1,
                   ![t].pc = "L105"]

\* line 103: hidden[h] += input[i] * weightsInputHidden[i * HIDDEN_SIZE + h]; line 102: i++
DoL103(fr, t) ==
    LET h == fr[t].h
        i == fr[t].i
        b == fr[Local(t)]
    IN  [fr EXCEPT ![Local(t)].hidden[h] =
                       b.hidden[h] + FMul(b.input[i], At(weightsInputHidden, i * HIDDEN_SIZE + h)),
                   ![t].i = i + 1,
                   ![t].macsHidden = @ + 1,
                   ![t].pc = IF i + 1 < INPUT_SIZE THEN "L103" ELSE "L105"]

\* line 105: hidden[h] = relu(hidden[h]); line 100: h++
DoL105(fr, t) ==
    LET h == fr[t].h
    IN  [fr EXCEPT ![Local(t)].hidden[h] = relu(fr[Local(t)].hidden[h]),
                   ![t].h = h + 1,
                   ![t].pc = IF h + 1 < HIDDEN_SIZE THEN "L101" ELSE "L110"]

\* lines 110-111 without the initialisation of maxValue
DoL110KeepMax(fr, t) ==
    [fr EXCEPT ![Local(t)].bestAction = 0,
               ![t].o = 0,
               ![t].pc = IF 0 < OUTPUT_SIZE THEN "L114" ELSE "L126"]

\* lines 110-111: maxValue = -1e10; bestAction = 0; line 113: o = 0
DoL110(fr, t) ==
    [fr EXCEPT ![Local(t)].maxValue = MAX_VALUE_INIT,
               ![Local(t)].bestAction = 0,
               ![t].o = 0,
               ![t].pc = IF 0 < OUTPUT_SIZE THEN "L114" ELSE "L126"]

\* line 114: output[o] = biasOutput[o]; line 115: h = 0
DoL114(fr, t) ==
    [fr EXCEPT ![Local(t)].output[fr[t].o] = At(biasOutput, fr[t].o),
               ![t].h = 0,
               ![t].pc = IF 0 < HIDDEN_SIZE THEN "L116" ELSE "L120"]

\* line 116: output[o] += hidden[h] * weightsHiddenOutput[h * OUTPUT_SIZE + o]; line 115: h++
DoL116(fr, t) ==
    LET h == fr[t].h
        o == fr[t].o
        b == fr[Local(t)]
    IN  [fr EXCEPT ![Local(t)].output[o] =
                       b.output[o] + FMul(b.hidden[h], At(weightsHiddenOutput, h * OUTPUT_SIZE + o)),
                   ![t].h = h + 1,
                   ![t].macsOutput = @ + 1,
                   ![t].pc = IF h + 1 < HIDDEN_SIZE THEN "L116" ELSE "L120"]

\* the comparison of line 120 turned round
BetterReversed(score, maxValue) == WideGreater(maxValue, Wide(score))

\* the comparison of line 120 as >=
BetterOrEqual(score, maxValue) == ~WideGreater(maxValue, Wide(score))

\* the comparison of line 120: output[o] > maxValue
Better(score, maxValue) == WideGreater(Wide(score), maxValue)

\* lines 120-123: if (output[o] > maxValue) { maxValue = output[o]; bestAction = o; }
\* line 113: o++
DoL120(fr, t) ==
    LET o == fr[t].o
        b == fr[Local(t)]
        better == Better(b.output[o], b.maxValue)
    IN  [fr EXCEPT ![Local(t)].maxValue = IF better THEN Wide(b.output[o]) ELSE b.maxValue,
                   ![Local(t)].bestAction = IF better THEN o ELSE b.bestAction,
                   ![t].o = o + 1,
                   ![t].pc = IF o + 1 < OUTPUT_SIZE THEN "L114" ELSE "L126"]

\* returning the loop index instead of bestAction
ReturnLoopIndex(fr, t) == fr[t].o

\* the value of `return bestAction` (line 126)
ReturnValue(fr, t) == fr[Local(t)].bestAction

\* one statement of thread t's call; a call at its return statement stays there
StepOf(fr, t) ==
    CASE fr[t].pc = "L95"  -> DoL95(fr, t)
      [] fr[t].pc = "L96"  -> DoL96(fr, t)
      [] fr[t].pc = "L101" -> DoL101(fr, t)
      [] fr[t].pc = "L103" -> DoL103(fr, t)
      [] fr[t].pc = "L105" -> DoL105(fr, t)
      [] fr[t].pc = "L110" -> DoL110(fr, t)
      [] fr[t].pc = "L114" -> DoL114(fr, t)
      [] fr[t].pc = "L116" -> DoL116(fr, t)
      [] fr[t].pc = "L120" -> DoL120(fr, t)
      [] OTHER -> fr

RECURSIVE StepsOf(_, _, _)
\* n statements of thread t's call, by halving (the set binds each
\* intermediate frame to its value)
StepsOf(fr, t, n) ==
    IF n = 0 THEN fr
    ELSE IF n = 1 THEN StepOf(fr, t)
    ELSE CHOOSE r \in {StepsOf(mid, t, n - (n \div 2)) : mid \in {StepsOf(fr, t, n \div 2)}} : TRUE

\* more statements than any call executes
StepBudget == 4 * (HIDDEN_SIZE + 1) * (INPUT_SIZE + OUTPUT_SIZE)

\* thread t's call run without interruption up to its return statement
RunToReturn(fr, t) == StepsOf(fr, t, StepBudget)

\* getAction(a, v) on this instance run alone, from a fresh frame
GetActionAlone(a, v) ==
    CHOOSE r \in {ReturnValue(RunToReturn(fr0, "t1"), "t1") :
                     fr0 \in {[t \in Threads |-> IF t = "t1" THEN EntryFrame(a, v, 0) ELSE NoFrame]}} : TRUE

\* ----------------------------------------------------------------------
\* getMotorTorque (lines 134-137)
\* ----------------------------------------------------------------------
\* the table with its ends swapped
actionsSwapped == <<ONE, 0, 0 - ONE>>

\* const float actions[3] = {-1.0, 0.0, 1.0}
actions == <<0 - ONE, 0, ONE>>

\* the index is inside the array of line 135
InBounds(action) == 0 <= action /\ action < Len(actions)

\* return actions[action]: the element when the index is inside the array;
\* outside it the read is undefined behaviour (the code checks nothing): the
\* build may trap or hand back whatever lies beside the array
MotorTorqueOutcomes(action) ==
    IF InBounds(action)
    THEN {[kind |-> "value", value |-> At(actions, action)]}
    ELSE {[kind |-> "fault", value |-> 0]}
         \cup {[kind |-> "value", value |-> g] : g \in Indeterminate}

\* ----------------------------------------------------------------------
\* The state machine
\* ----------------------------------------------------------------------
NoResult == [op |-> "none", arg |-> 0, chained |-> FALSE, kind |-> "none", value |-> 0]

\* a trap ends the program
Alive == \A t \in Threads : ret[t].kind # "fault"

Idle(t) == Alive /\ frame[t].pc = "idle"

AtLabel(t, label) == Alive /\ frame[t].pc = label

\* a statement that writes biasOutput[0]
StoreTensorsClobber(p) == <<p[1], p[2], p[3], [p[4] EXCEPT ![1] = p[4][1] + ONE]>>

\* what getAction and getMotorTorque store into the four tensors: nothing,
\* they are const members and no statement assigns to them
StoreTensors(p) == p

\* the tensors after a statement of either method
KeepTensors ==
    /\ weightsInputHidden' = StoreTensors(params)[1]
    /\ biasHidden' = StoreTensors(params)[2]
    /\ weightsHiddenOutput' = StoreTensors(params)[3]
    /\ biasOutput' = StoreTensors(params)[4]

InitWith(P) ==
    /\ \E p \in P :
         /\ weightsInputHidden = p.weightsInputHidden
         /\ biasHidden = p.biasHidden
         /\ weightsHiddenOutput = p.weightsHiddenOutput
         /\ biasOutput = p.biasOutput
    /\ frame = [t \in Threads |-> NoFrame]
    /\ ret = [t \in Threads |-> NoResult]
    /\ earlier = [t \in Threads |-> FALSE]

Init == InitWith(ParamSets)

\* thread t enters getAction(a, v); its locals hold g
Enter(t, a, v, g) ==
    /\ Idle(t)
    /\ frame' = [frame EXCEPT ![t] = EntryFrame(a, v, g)]
    /\ ret' = [ret EXCEPT ![t] = NoResult]
    /\ earlier' = [earlier EXCEPT ![t] = \E u \in Threads : ret[u].op # "none"]
    /\ KeepTensors

Statement(t, label, next) ==
    /\ AtLabel(t, label)
    /\ frame' = next
    /\ KeepTensors
    /\ UNCHANGED <<ret, earlier>>

Call(t) == \E ob \in Observations, g \in Indeterminate : Enter(t, ob[1], ob[2], g)

NormalizeAngle(t) == Statement(t, "L95", DoL95(frame, t))

NormalizeVelocity(t) == Statement(t, "L96", DoL96(frame, t))

HiddenBias(t) == Statement(t, "L101", DoL101(frame, t))

HiddenAccumulate(t) == Statement(t, "L103", DoL103(frame, t))

HiddenRelu(t) == Statement(t, "L105", DoL105(frame, t))

OutputBegin(t) == Statement(t, "L110", DoL110(frame, t))

OutputBias(t) == Statement(t, "L114", DoL114(frame, t))

OutputAccumulate(t) == Statement(t, "L116", DoL116(frame, t))

TrackBest(t) == Statement(t, "L120", DoL120(frame, t))

\* line 126: return bestAction
Return(t) ==
    /\ AtLabel(t, "L126")
    /\ ret' = [ret EXCEPT ![t] = [op |-> "getAction", arg |-> 0, chained |-> FALSE,
                                  kind |-> "value", value |-> ReturnValue(frame, t)]]
    /\ frame' = [frame EXCEPT ![t].pc = "idle"]
    /\ KeepTensors
    /\ UNCHANGED earlier

\* thread t calls getMotorTorque(action)
MotorTorque(t, action, chained) ==
    /\ Idle(t)
    /\ \E r \in MotorTorqueOutcomes(action) :
         ret' = [ret EXCEPT ![t] = [op |-> "getMotorTorque", arg |-> action,
                                    chained |-> chained, kind |-> r.kind, value |-> r.value]]
    /\ KeepTensors
    /\ UNCHANGED <<frame, earlier>>

\* getMotorTorque with an index of the caller's choice
GetMotorTorque(t) == \E action \in ActionArgs : MotorTorque(t, action, FALSE)

\* the usage of lines 148-150: torque = bot.getMotorTorque(bot.getAction(...))
TorqueOfAction(t) ==
    /\ ret[t].op = "getAction"
    /\ MotorTorque(t, ret[t].value, TRUE)

GetActionStep(t) ==
    \/ NormalizeAngle(t)
    \/ NormalizeVelocity(t)
    \/ HiddenBias(t)
    \/ HiddenAccumulate(t)
    \/ HiddenRelu(t)
    \/ OutputBegin(t)
    \/ OutputBias(t)
    \/ OutputAccumulate(t)
    \/ TrackBest(t)
    \/ Return(t)

\* one control loop on the instance: calls in any order, with any arguments
Next ==
    \/ Call("t1")
    \/ GetActionStep("t1")
    \/ GetMotorTorque("t1")
    \/ TorqueOfAction("t1")

Spec == Init /\ [][Next]_vars

\* ----------------------------------------------------------------------
\* Two control loops on one instance, each making one getAction call, their
\* statements interleaved in every order
\* ----------------------------------------------------------------------
ConcurrentParams ==
    { [weightsInputHidden |-> GoodWeightsInputHidden, biasHidden |-> GoodBiasHidden,
       weightsHiddenOutput |-> GoodWeightsHiddenOutput, biasOutput |-> GoodBiasOutput] }

\* the two loops see different observations
ConcurrentObservation(t) == IF t = "t1" THEN <<0 - AngleStep, 0>> ELSE <<0, VelStep>>

InitConcurrent == InitWith(ConcurrentParams)

CallOnce(t) ==
    /\ ret[t].op = "none"
    /\ \E g \in Indeterminate :
         Enter(t, ConcurrentObservation(t)[1], ConcurrentObservation(t)[2], g)

NextConcurrent == \E t \in Threads : CallOnce(t) \/ GetActionStep(t)

SpecConcurrent == InitConcurrent /\ [][NextConcurrent]_vars


\* ----------------------------------------------------------------------
\* Properties
\* ----------------------------------------------------------------------
OutputIndexes == 0..(OUTPUT_SIZE - 1)

HiddenIndexes == 0..(HIDDEN_SIZE - 1)

\* thread t's getAction has returned and its result is the last thing t got
Returned(t) == ret[t].op = "getAction"

RECURSIVE LinearScore(_, _, _)
\* biasOutput[o] plus the first n terms hidden[h] * weightsHiddenOutput[h*3 + o]
LinearScore(hid, o, n) ==
    IF n = 0 THEN At(biasOutput, o)
    ELSE LinearScore(hid, o, n - 1)
         + FMul(hid[n - 1], At(weightsHiddenOutput, (n - 1) * OUTPUT_SIZE + o))

C2_LowestIndexOnTie ==
    \A t \in Threads :
        Returned(t) =>
            \A o \in OutputIndexes :
                (\A q \in OutputIndexes : frame[t].output[o] >= frame[t].output[q])
                    => ret[t].value <= o

\* scores 0 and 2 are equal and above score 1, and the result is 0
C2_Witness ==
    \E t \in Threads :
        /\ Returned(t)
        /\ frame[t].output[0] = frame[t].output[2]
        /\ frame[t].output[0] > frame[t].output[1]
        /\ frame[t].hidden # [h \in HiddenIndexes |-> 0]
        /\ ret[t].value = 0

\* C3: getAction has no error path and returns an index in {0, 1, 2} for every
\* observation, so getMotorTorque applied to its result reads inside its table.
C3_ActionInRange ==
    \A t \in Threads :
        /\ Returned(t) => ret[t].kind = "value" /\ ret[t].value \in {0, 1, 2}
        /\ ret[t].chained => ret[t].kind = "value" /\ InBounds(ret[t].arg)

\* the torque of an action chosen for an observation far outside the nominal range
C3_Witness ==
    \E t \in Threads :
        /\ ret[t].chained
        /\ ret[t].kind = "value"
        /\ frame[t].angle = MaxAngleK * AngleStep
        /\ frame[t].angle > M_PI_3
        /\ frame[t].angularVelocity = 0 - MaxVelK * VelStep
        /\ frame[t].angularVelocity < 0 - TEN

\* the inputs of thread t's frame have been computed
Normalized(t) == frame[t].pc \notin {"idle", "L95", "L96"} \/ Returned(t)

SaturatedAngle(a) ==
    IF a > M_PI_3 THEN M_PI_3 ELSE IF a < 0 - M_PI_3 THEN 0 - M_PI_3 ELSE a

SaturatedVelocity(v) ==
    IF v > TEN THEN TEN ELSE IF v < 0 - TEN THEN 0 - TEN ELSE v

\* C4: the normalized inputs lie in [-1.0, 1.0]; an angle >= pi/3 gives exactly
\* 1.0 and one <= -pi/3 exactly -1.0, likewise the velocity at 10.0; a quotient
\* inside or at a bound is passed through unchanged; and the action for an
\* observation beyond a bound is the action for the observation at that bound.
C4_SaturatingNormalization ==
    \A t \in Threads :
        Normalized(t) =>
            LET f == frame[t]
                qa == FDiv(f.angle, M_PI_3)
                qv == FDiv(f.angularVelocity, TEN)
            IN  /\ 0 - ONE <= f.input[0] /\ f.input[0] <= ONE
                /\ 0 - ONE <= f.input[1] /\ f.input[1] <= ONE
                /\ f.angle >= M_PI_3 => f.input[0] = ONE
                /\ f.angle <= 0 - M_PI_3 => f.input[0] = 0 - ONE
                /\ f.angularVelocity >= TEN => f.input[1] = ONE
                /\ f.angularVelocity <= 0 - TEN => f.input[1] = 0 - ONE
                /\ (0 - ONE <= qa /\ qa <= ONE) => f.input[0] = qa
                /\ (0 - ONE <= qv /\ qv <= ONE) => f.input[1] = qv
                /\ Returned(t) =>
                     ret[t].value = GetActionAlone(SaturatedAngle(f.angle),
                                                   SaturatedVelocity(f.angularVelocity))

\* an angle far above pi/3 with a velocity far below -10.0
C4_Witness ==
    \E t \in Threads :
        /\ Returned(t)
        /\ frame[t].angle = MaxAngleK * AngleStep
        /\ frame[t].angle > M_PI_3 + 1
        /\ frame[t].input[0] = ONE
        /\ frame[t].angularVelocity = 0 - MaxVelK * VelStep
        /\ frame[t].input[1] = 0 - ONE

\* C5: getMotorTorque maps 0 to -1.0, 1 to 0.0 and 2 to 1.0 and nothing else,
\* whatever the tensors hold and whatever was called before.
C5_TorqueTable ==
    \A t \in Threads :
        (ret[t].op = "getMotorTorque" /\ ret[t].arg \in {0, 1, 2}) =>
            /\ ret[t].kind = "value"
            /\ ret[t].value \in {0 - ONE, 0, ONE}
            /\ ret[t].arg = 0 => ret[t].value = 0 - ONE
            /\ ret[t].arg = 1 => ret[t].value = 0
            /\ ret[t].arg = 2 => ret[t].value = ONE

\* BRAKE gives 0.0 on a shipped model, after a getAction call
C5_Witness ==
    \E t \in Threads :
        /\ ret[t].op = "getMotorTorque"
        /\ ret[t].arg = 1
        /\ ret[t].value = 0
        /\ biasOutput = OkayishBiasOutput
        /\ frame[t].angularVelocity # 0

\* C6: getMotorTorque with an index outside {0, 1, 2} fails with an OutOfRange
\* error and returns no torque.
C6_OutOfRangeFails ==
    \A t \in Threads :
        (ret[t].op = "getMotorTorque" /\ ret[t].arg \notin {0, 1, 2}) => ret[t].kind = "fault"

\* C7: getAction(a, v) returns the index it returns on a fresh frame with no call
\* before it, after any sequence of earlier getAction and getMotorTorque calls.
C7_Deterministic ==
    \A t \in Threads :
        Returned(t) => ret[t].value = GetActionAlone(frame[t].angle, frame[t].angularVelocity)

\* a call that began after an earlier call had returned, with a result other than 0
C7_Witness ==
    \E t \in Threads : Returned(t) /\ earlier[t] /\ ret[t].value # 0

\* the frame of getAction(a, v) at its return statement when run alone
AloneAtReturn(a, v) ==
    CHOOSE f \in {RunToReturn(fr0, "t1")["t1"] :
                     fr0 \in {[t \in Threads |-> IF t = "t1" THEN EntryFrame(a, v, 0) ELSE NoFrame]}} : TRUE

\* C8: getAction calls interleaved statement by statement on one instance each
\* return the index they return when run alone: the input, hidden and output
\* buffers a call works on hold what that call itself computed.
C8_InterleavedAsAlone ==
    \A t \in Threads :
        LET a == ConcurrentObservation(t)[1]
            v == ConcurrentObservation(t)[2]
            b == frame[Local(t)]
        IN  /\ frame[t].pc \notin {"idle", "L95", "L96"} =>
                 /\ b.input[0] = constrain(FDiv(a, M_PI_3), 0 - ONE, ONE)
                 /\ b.input[1] = constrain(FDiv(v, TEN), 0 - ONE, ONE)
            /\ frame[t].pc = "L126" =>
                 /\ b.hidden = AloneAtReturn(a, v).hidden
                 /\ b.output = AloneAtReturn(a, v).output
                 /\ b.bestAction = AloneAtReturn(a, v).bestAction
            /\ Returned(t) => ret[t].value = GetActionAlone(a, v)

\* both calls began before either had returned, and their results differ
C8_Witness ==
    /\ \A t \in Threads : Returned(t) /\ ~earlier[t]
    /\ ret["t1"].value # ret["t2"].value

\* C9: no step of getAction or getMotorTorque changes the content or the size of
\* the four tensors.
C9_TensorsUnchanged ==
    [][/\ weightsInputHidden' = weightsInputHidden
       /\ biasHidden' = biasHidden
       /\ weightsHiddenOutput' = weightsHiddenOutput
       /\ biasOutput' = biasOutput
       /\ Len(weightsInputHidden') = 2 * 64
       /\ Len(biasHidden') = 64
       /\ Len(weightsHiddenOutput') = 64 * 3
       /\ Len(biasOutput') = 3]_vars

\* a getAction call and then a getMotorTorque call with a bad index have run
C9_Witness ==
    \E t \in Threads :
        /\ ret[t].op = "getMotorTorque"
        /\ ~InBounds(ret[t].arg)
        /\ ret[t].kind = "value"
        /\ frame[t].angle # 0

\* the hidden layer of thread t's frame is complete
HiddenDone(t) == frame[t].pc \in {"L110", "L114", "L116", "L120", "L126"} \/ Returned(t)

ZeroObservation(t) == frame[t].angle = 0 /\ frame[t].angularVelocity = 0

ZeroHiddenBias == \A h \in HiddenIndexes : At(biasHidden, h) = 0

\* C10: for the observation (0.0, 0.0) the normalized inputs are (0.0, 0.0) and
\* every hidden activation is max(0, biasHidden[h]); with all hidden biases 0
\* every activation is 0, every score is its output bias and the result is the
\* lowest index of the largest output bias.
C10_ZeroObservation ==
    \A t \in Threads :
        (HiddenDone(t) /\ ZeroObservation(t)) =>
            LET f == frame[t]
            IN  /\ f.input[0] = 0 /\ f.input[1] = 0
                /\ \A h \in HiddenIndexes :
                     f.hidden[h] = IF At(biasHidden, h) > 0 THEN At(biasHidden, h) ELSE 0
                /\ ZeroHiddenBias =>
                     /\ \A h \in HiddenIndexes : f.hidden[h] = 0
                     /\ Returned(t) =>
                          /\ \A o \in OutputIndexes : f.output[o] = At(biasOutput, o)
                          /\ \A o \in OutputIndexes :
                               At(biasOutput, ret[t].value) >= At(biasOutput, o)
                          /\ \A o \in OutputIndexes :
                               At(biasOutput, o) = At(biasOutput, ret[t].value)
                                   => ret[t].value <= o

\* zero hidden biases, non-zero weights, output biases 1 and 2 tie above bias 0
C10_Witness ==
    \E t \in Threads :
        /\ Returned(t)
        /\ ZeroObservation(t)
        /\ ZeroHiddenBias
        /\ At(weightsInputHidden, 0) # 0
        /\ At(biasOutput, 1) = At(biasOutput, 2)
        /\ At(biasOutput, 1) > At(biasOutput, 0)
        /\ ret[t].value = 1

\* the products of hidden unit h: input[0] * weightsInputHidden[h] and
\* input[1] * weightsInputHidden[64 + h]
HiddenTerm0(f, h) == FMul(f.input[0], At(weightsInputHidden, h))

HiddenTerm1(f, h) == FMul(f.input[1], At(weightsInputHidden, 64 + h))

\* C11: every hidden activation is max(0, biasHidden[h] + input[0] *
\* weightsInputHidden[h] + input[1] * weightsInputHidden[64 + h]), summed from the
\* bias with input 0 before input 1; it is >= 0 when the output layer reads it;
\* and every index into weightsInputHidden is below 128.
C11_HiddenLayer ==
    \A t \in Threads :
        LET f == frame[t]
            sum(h) == At(biasHidden, h) + HiddenTerm0(f, h) + HiddenTerm1(f, h)
        IN  /\ f.pc = "L103" =>
                 /\ f.i \in {0, 1}
                 /\ 0 <= f.i * 64 + f.h /\ f.i * 64 + f.h < 128
                 /\ f.i * 64 + f.h < Len(weightsInputHidden)
                 /\ f.i = 0 => f.hidden[f.h] = At(biasHidden, f.h)
                 /\ f.i = 1 => f.hidden[f.h] = At(biasHidden, f.h) + HiddenTerm0(f, f.h)
            /\ f.pc = "L105" => f.hidden[f.h] = sum(f.h)
            /\ HiddenDone(t) =>
                 \A h \in HiddenIndexes :
                     /\ f.hidden[h] = IF sum(h) > 0 THEN sum(h) ELSE 0
                     /\ f.hidden[h] >= 0

\* both inputs are non-zero, one unit is cut to 0 by the ReLU and another is positive
C11_Witness ==
    \E t \in Threads :
        /\ frame[t].pc = "L116"
        /\ frame[t].input[0] # 0
        /\ frame[t].input[1] # 0
        /\ \E h \in HiddenIndexes :
             /\ At(biasHidden, h) + HiddenTerm0(frame[t], h) + HiddenTerm1(frame[t], h) < 0
             /\ frame[t].hidden[h] = 0
        /\ \E h \in HiddenIndexes : frame[t].hidden[h] > 0

\* the number of statements a call in frame f has executed, from its position
Position(f) ==
    LET unit == 2 + INPUT_SIZE
        layer == 2 + HIDDEN_SIZE * unit
        score == 2 + HIDDEN_SIZE
    IN  CASE f.pc = "L95"  -> 0
          [] f.pc = "L96"  -> 1
          [] f.pc = "L101" -> 2 + f.h * unit
          [] f.pc = "L103" -> 2 + f.h * unit + 1 + f.i
          [] f.pc = "L105" -> 2 + f.h * unit + 1 + INPUT_SIZE
          [] f.pc = "L110" -> layer
          [] f.pc = "L114" -> layer + 1 + f.o * score
          [] f.pc = "L116" -> layer + 1 + f.o * score + 1 + f.h
          [] f.pc = "L120" -> layer + 1 + f.o * score + 1 + HIDDEN_SIZE
          [] f.pc = "L126" -> layer + 1 + OUTPUT_SIZE * score

\* C12: a getAction call ends after a fixed amount of work, whatever the
\* observation and the weights: every statement moves the call one position
\* on, it reaches its return after 128 hidden-layer and then 192 output-layer
\* multiply-adds (320 in all), and no output multiply-add runs before the 128th
\* hidden one.
C12_FixedWork ==
    [][\A t \in Threads :
          LET f == frame[t]
              g == frame'[t]
          IN  /\ (f.pc \notin {"idle", "L126"} /\ g # f) =>
                   /\ g.pc \notin {"idle", "L95"}
                   /\ Position(g) = Position(f) + 1
                   /\ Position(g) <= 2 + 64 * 4 + 1 + 3 * 66
              /\ g.pc \notin {"idle", "L126"} => StepOf(frame', t) # frame'
              /\ g.macsHidden <= 128
              /\ g.macsOutput <= 192
              /\ g.macsOutput > 0 => g.macsHidden = 128
              /\ g.pc \in {"L110", "L114", "L116", "L120", "L126"} => g.macsHidden = 128
              /\ (g.pc = "L126" \/ f.pc = "L126") =>
                   /\ g.macsHidden = 2 * 64
                   /\ g.macsOutput = 64 * 3
                   /\ g.macsHidden + g.macsOutput = 320]_vars

\* a call on a shipped model, for an observation far outside the nominal range,
\* at its return statement after 128 + 192 multiply-adds
C12_Witness ==
    \E t \in Threads :
        /\ frame[t].pc = "L126"
        /\ frame[t].macsHidden = 128
        /\ frame[t].macsOutput = 192
        /\ frame[t].angle = 0 - MaxAngleK * AngleStep
        /\ frame[t].angularVelocity = MaxVelK * VelStep
        /\ biasOutput = GreatBiasOutput

\* every weight and bias of the loaded parameter set has magnitude <= 10
ParamsBounded ==
    \A n \in 1..Len(params) : \A k \in 1..Len(params[n]) :
        /\ 0 - 10 * ONE <= params[n][k]
        /\ params[n][k] <= 10 * ONE

\* the loaded parameter set is one of the three shipped ones
Shipped ==
    [weightsInputHidden |-> weightsInputHidden, biasHidden |-> biasHidden,
     weightsHiddenOutput |-> weightsHiddenOutput, biasOutput |-> biasOutput] \in ShippedParams

\* the scores of thread t's call whose accumulation and comparison are over
ScoresCompared(t) ==
    LET f == frame[t]
    IN  IF f.pc \in {"L114", "L120"} THEN 0..(f.o - 1)
        ELSE IF f.pc = "L126" \/ Returned(t) THEN OutputIndexes
        ELSE {}

\* C13: the initial running maximum -1e10 never decides the result: the three
\* shipped parameter sets have all weights and biases within [-10, 10], and for
\* any such parameter set every hidden activation is at most 30 and every
\* output score at least -19210, which is above -1e10, so score[0] replaces
\* the initial value and from then on the maximum is the score of bestAction.
\* (Looked at when a call is entered, between two scores, and at its return.)
C13_SentinelNeverDecides ==
    /\ WideGreater(Wide(0 - 19210 * ONE), [k |-> 0 - 100000, v |-> 0])
    /\ \A t \in Threads :
           LET f == frame[t]
           IN  /\ (f.pc = "L95" /\ Shipped) => ParamsBounded
               /\ ((f.pc \in {"L110", "L114", "L120", "L126"} \/ Returned(t)) /\ ParamsBounded) =>
                    /\ \A h \in HiddenIndexes : f.hidden[h] <= 30 * ONE
                    /\ f.pc = "L120" => f.output[f.o] >= 0 - 19210 * ONE
                    /\ (f.pc = "L120" /\ f.o = 0) =>
                           /\ f.maxValue = [k |-> 0 - 100000, v |-> 0]
                           /\ WideGreater(Wide(f.output[0]), f.maxValue)
                    /\ ScoresCompared(t) # {} =>
                           /\ f.maxValue # [k |-> 0 - 100000, v |-> 0]
                           /\ f.bestAction \in ScoresCompared(t)
                           /\ f.maxValue = Wide(f.output[f.bestAction])
                           /\ \A o \in ScoresCompared(t) :
                                  /\ f.output[o] >= 0 - 19210 * ONE
                                  /\ ~WideGreater(Wide(f.output[o]), f.maxValue)

\* a shipped model with a weight of magnitude 10, right after a negative
\* score[0] has replaced the initial maximum
C13_Witness ==
    \E t \in Threads :
        /\ frame[t].pc = "L114"
        /\ Shipped
        /\ \E k \in 1..Len(weightsHiddenOutput) : weightsHiddenOutput[k] = 0 - 10 * ONE
        /\ frame[t].o = 1
        /\ frame[t].output[0] < 0
        /\ frame[t].maxValue = Wide(frame[t].output[0])
        /\ frame[t].bestAction = 0

====
